---- MODULE Spec2Model ----
(***************************************************************************)
(* Model of the evaluation pipeline of examples/eval.py: the striped work  *)
(* splitting (chunk / interleave), the per-item generation loop (generate), *)
(* the distributed prediction runner (predict), the scoring closure        *)
(* (load_metrics.compute) and the script body (__main__).                  *)
(*                                                                         *)
(* Python lists are TLA+ sequences; Python position p (0-based) is index   *)
(* p + 1.  Rank r (0-based) owns slot r + 1 of a gathered list.            *)
(***************************************************************************)
EXTENDS Integers, Sequences, FiniteSets, TLC

VARIABLES
    \* ---- chunk / interleave applied to one input
    l,            \* the input list handed to chunk
    nchunks,      \* the n handed to chunk
    chunks,       \* list(chunk(l, n)), or <<>> before the call
    interleaved,  \* interleave(chunks), or <<>> before the call
    upc,          \* "start" | "chunked" | "interleaved" | "given" | "merged" | "off"
    \* ---- one call of generate
    strict,       \* the strict flag
    timeout,      \* <<>> for None, <<t>> for the integer t
    start,        \* time() at loop entry
    now,          \* the wall clock
    seen,         \* history: the pairs the source has yielded, with the clock at each
    tikzpics,     \* the set of (score, tikzpic) pairs
    success,      \* the success flag
    gpc,          \* "loop" | "broke" | "exhausted" | "returned" | "off"
    result,       \* the list generate returns
    \* ---- the ranks of one job running predict, and the cache file between jobs
    WORLD_SIZE,   \* number of ranks; ranks are 0..WORLD_SIZE-1
    testset,      \* list(testset): the dataset items in order
    cache_file,   \* TRUE when a cache path was configured
    disk,         \* the cache file: [exists |-> isfile(cache_file), data |-> its JSON content]
    pc,           \* per rank: "start" | "generating" | "gathering" | "gathered"
                  \*           | "persisted" | "returned" | "raised" ("off" outside Spec)
    predictions,  \* per rank: the local variable predictions
    worker_chunk, \* per rank: the local variable worker_chunk
    worker_preds, \* per rank: the local variable worker_preds
    raised,       \* per rank: TRUE while an exception of generate is in flight
    arrivals,     \* the ranks that have called all_gather_object, in call order
    disk0,        \* history: the cache file as it was when the current job started
    invoked,      \* history: <<rank, item>> for every call of generate in this job
    produced,     \* history: item -> <<list generate returned for it>> in this job
    writes,       \* history: the cache writes of this job, [rank, gather_done]
    \* ---- the compute closure of load_metrics and its metric objects
    cpc,          \* "idle" | "extracted" | "looping" | "returned" | "failed" | "off"
    batch,        \* the (reference, prediction) pairs of the current call
    mstate,       \* metric -> its accumulator state [score, n_samples]
    mstate0,      \* history: mstate as it was when the current call started
    scores,       \* the score mapping under construction
    mi,           \* number of metrics the loop of the current call has finished
    ncalls,       \* number of compute calls started
    \* ---- the script body (__main__) of one process
    args,         \* the parsed arguments: [timeout, cache_dir]
    RANK,         \* the rank of the process
    mpc,          \* "next" | "parsed" | "scoring" | "done" | "aborted" | "off"
    path_item,    \* the --path token of the current iteration, as its parts
    model_parts,  \* the dict built from item
    npaths,       \* number of --path tokens taken so far
    model_predictions, \* the predictions dict: model name -> where its entry came from
    preds0,       \* history: model_predictions as it was when path_item was taken
    metric_types, \* history: the metric_type of every pipeline built
    output        \* <<>> until the scores file is written, then <<its content>>

utilVars == <<l, nchunks, chunks, interleaved, upc>>
genVars == <<strict, timeout, start, now, seen, tikzpics, success, gpc, result>>

predVars == <<WORLD_SIZE, testset, cache_file, disk, pc, predictions, worker_chunk,
              worker_preds, raised, arrivals, disk0, invoked, produced, writes>>

compVars == <<cpc, batch, mstate, mstate0, scores, mi, ncalls>>

mainVars == <<args, RANK, mpc, path_item, model_parts, npaths, model_predictions, preds0,
              metric_types, output>>

vars == <<l, nchunks, chunks, interleaved, upc,
          strict, timeout, start, now, seen, tikzpics, success, gpc, result,
          WORLD_SIZE, testset, cache_file, disk, pc, predictions, worker_chunk,
          worker_preds, raised, arrivals, disk0, invoked, produced, writes,
          cpc, batch, mstate, mstate0, scores, mi, ncalls,
          args, RANK, mpc, path_item, model_parts, npaths, model_predictions, preds0,
          metric_types, output>>

\* ------------------------------------------------------------------ bounds
MaxLen == 4     \* longest input list of chunk
MaxWorld == 3   \* largest WORLD_SIZE / number of chunks
MaxYields == 3  \* most pairs one candidate source yields
MaxClock == 1   \* the clock runs 0..MaxClock
MaxTimeout == 1 \* timeouts are None, -1, 0..MaxTimeout
MaxRanks == 2   \* largest WORLD_SIZE of a job
MaxItems == 3   \* largest test set
MaxBatch == 2   \* most (reference, prediction) pairs handed to compute
MaxCalls == 2   \* most compute calls on the same metric objects
MaxChunkLen == 2 \* longest chunk handed to interleave directly
MaxParts == 2   \* most comma-separated parts of one --path token
MaxPaths == 2   \* most --path tokens of one invocation

Elems == 1..MaxLen

RECURSIVE SeqsUpTo(_, _)
SeqsUpTo(S, k) ==
    IF k = 0 THEN {<<>>}
    ELSE LET shorter == SeqsUpTo(S, k - 1)
         IN  shorter \cup {Append(s, x) : s \in {t \in shorter : Len(t) = k - 1}, x \in S}

\* ------------------------------------------------------- chunk / interleave
\* len(l[i::n]) for 0-based start i
StripeLen(len, i, n) == IF i >= len THEN 0 ELSE (len - i - 1) \div n + 1

\* l[i::n]
Stripe(lst, i, n) == [k \in 1..StripeLen(Len(lst), i, n) |-> lst[i + (k - 1) * n + 1]]

\* a plausible wrong split: contiguous blocks instead of stripes
chunk_blocks(lst, n) ==
    LET size == (Len(lst) + n - 1) \div n
        lo(i) == i * size
        hi(i) == IF (i + 1) * size < Len(lst) THEN (i + 1) * size ELSE Len(lst)
    IN  [i \in 1..n |-> [k \in 1..(IF hi(i - 1) > lo(i - 1) THEN hi(i - 1) - lo(i - 1) ELSE 0)
                            |-> lst[lo(i - 1) + k]]]

\* list(chunk(l, n)): for i in range(0, n): yield l[i::n]
chunk(lst, n) == [i \in 1..n |-> Stripe(lst, i - 1, n)]

\* for idx in count(): extend(chunk[idx] for chunk in chunks), the generator
\* appending element by element until an access raises IndexError
RECURSIVE interleave_from(_, _, _, _)
interleave_from(cs, idx, w, acc) ==
    IF w > Len(cs) THEN interleave_from(cs, idx + 1, 1, acc)
    ELSE IF idx + 1 > Len(cs[w]) THEN acc
    ELSE interleave_from(cs, idx, w + 1, Append(acc, cs[w][idx + 1]))

\* a plausible wrong merge: a round is kept only when every chunk has it
RECURSIVE interleave_whole_rounds(_, _, _)
interleave_whole_rounds(cs, idx, acc) ==
    IF \E w \in 1..Len(cs) : idx + 1 > Len(cs[w]) THEN acc
    ELSE interleave_whole_rounds(cs, idx + 1,
            acc \o [w \in 1..Len(cs) |-> cs[w][idx + 1]])

interleave_rounds(cs) == interleave_whole_rounds(cs, 0, <<>>)

\* a plausible wrong merge: the chunks one after the other
RECURSIVE interleave_concat(_)
interleave_concat(cs) ==
    IF cs = <<>> THEN <<>> ELSE Head(cs) \o interleave_concat(Tail(cs))

\* a plausible wrong merge: an exhausted chunk is skipped and the rounds go on
RECURSIVE interleave_skipping(_, _, _, _)
interleave_skipping(cs, idx, w, acc) ==
    IF \A v \in 1..Len(cs) : idx + 1 > Len(cs[v]) THEN acc
    ELSE IF w > Len(cs) THEN interleave_skipping(cs, idx + 1, 1, acc)
    ELSE IF idx + 1 > Len(cs[w]) THEN interleave_skipping(cs, idx, w + 1, acc)
    ELSE interleave_skipping(cs, idx, w + 1, Append(acc, cs[w][idx + 1]))

interleave_skip_short(cs) == interleave_skipping(cs, 0, 1, <<>>)

interleave(cs) == interleave_from(cs, 0, 1, <<>>)

\* ------------------------------------------------------------------ generate
\* A TikzDocument as the loop reads it: its two compilation outcomes.
Docs == [is_rasterizable : BOOLEAN, compiled_with_errors : BOOLEAN]

\* Two scores: enough for a lower, a higher and an equal score
Scores == {1, 2}

\* What pipe.simulate may yield: (score, tikzpic)
Pairs == Scores \X Docs

Timeouts == {<<>>} \cup {<<t>> : t \in -1..MaxTimeout}

\* Python truth value of the timeout argument: None and 0 are false
Truthy(t) == t # <<>> /\ t[1] # 0

\* not tikzpic.compiled_with_errors if strict else tikzpic.is_rasterizable
Succeeds(s, tikzpic) ==
    IF s THEN ~tikzpic.compiled_with_errors ELSE tikzpic.is_rasterizable

\* a plausible slip: the timeout is dropped from the stopping condition
ShouldBreak_on_success(succ, t, elapsed) == succ

\* success and (not timeout or time() - start >= timeout)
ShouldBreak(succ, t, elapsed) == succ /\ (~Truthy(t) \/ elapsed >= t[1])

\* a plausible slip: the set is listed without sorting it
SortedOrders_unsorted(S) ==
    {q \in [1..Cardinality(S) -> S] :
        \A i, j \in 1..Cardinality(S) : i # j => q[i] # q[j]}

\* every order sorted(tikzpics, key=itemgetter(0)) can give: the sort is stable
\* over the set's iteration order, which is arbitrary among equal scores
SortedOrders(S) ==
    {q \in [1..Cardinality(S) -> S] :
        /\ \A i, j \in 1..Cardinality(S) : i # j => q[i] # q[j]
        /\ \A i, j \in 1..Cardinality(S) : i < j => q[i][1] <= q[j][1]}

IdleGen ==
    /\ strict = FALSE
    /\ timeout = <<>>
    /\ start = 0
    /\ now = 0
    /\ seen = <<>>
    /\ tikzpics = {}
    /\ success = FALSE
    /\ gpc = "off"
    /\ result = <<>>

\* start, success, tikzpics = time(), False, set()
StartGen ==
    /\ strict \in BOOLEAN
    /\ timeout \in Timeouts
    /\ start = 0
    /\ now = 0
    /\ seen = <<>>
    /\ tikzpics = {}
    /\ success = FALSE
    /\ gpc = "loop"
    /\ result = <<>>

\* One iteration of the for loop: the source yields a pair after some time,
\* the body records it, updates success and decides whether to break.
GenYield ==
    /\ gpc = "loop"
    /\ Len(seen) < MaxYields
    /\ \E pair \in Pairs, t \in now..MaxClock :
        LET succ == success \/ Succeeds(strict, pair[2])
        IN  /\ now' = t
            /\ seen' = Append(seen, [pair |-> pair, at |-> t])
            /\ tikzpics' = tikzpics \cup {pair}
            /\ success' = succ
            /\ gpc' = IF ShouldBreak(succ, timeout, t - start) THEN "broke" ELSE "loop"
    /\ UNCHANGED <<strict, timeout, start, result>>
    /\ UNCHANGED utilVars
    /\ UNCHANGED predVars
    /\ UNCHANGED compVars
    /\ UNCHANGED mainVars

\* The source is finite and raises StopIteration: the loop ends naturally.
GenExhaust ==
    /\ gpc = "loop"
    /\ gpc' = "exhausted"
    /\ UNCHANGED <<strict, timeout, start, now, seen, tikzpics, success, result>>
    /\ UNCHANGED utilVars
    /\ UNCHANGED predVars
    /\ UNCHANGED compVars
    /\ UNCHANGED mainVars

\* return [tikzpic for _, tikzpic in sorted(tikzpics, key=itemgetter(0))]
GenReturn ==
    /\ gpc \in {"broke", "exhausted"}
    /\ \E q \in SortedOrders(tikzpics) :
        result' = [i \in 1..Len(q) |-> q[i][2]]
    /\ gpc' = "returned"
    /\ UNCHANGED <<strict, timeout, start, now, seen, tikzpics, success>>
    /\ UNCHANGED utilVars
    /\ UNCHANGED predVars
    /\ UNCHANGED compVars
    /\ UNCHANGED mainVars

\* ------------------------------------------- chunk / interleave on one input
IdleUtil ==
    /\ l = <<>>
    /\ nchunks = 1
    /\ chunks = <<>>
    /\ interleaved = <<>>
    /\ upc = "off"

\* Chunk lists as interleave can be handed them: any lengths, element k of
\* chunk w tagged <<w, k>>.
GivenChunks ==
    {[w \in 1..n |-> [k \in 1..len[w] |-> <<w, k>>]] :
        n \in 1..MaxWorld, len \in [1..MaxWorld -> 0..MaxChunkLen]}

\* Either chunk and interleave are applied to a list, or interleave alone is
\* applied to given chunks.
StartUtil ==
    /\ nchunks \in 1..MaxWorld
    /\ interleaved = <<>>
    /\ \/ /\ upc = "start"
          /\ l \in SeqsUpTo(Elems, MaxLen)
          /\ chunks = <<>>
       \/ /\ upc = "given"
          /\ l = <<>>
          /\ chunks \in {c \in GivenChunks : Len(c) = nchunks}

DoChunk ==
    /\ upc = "start"
    /\ chunks' = chunk(l, nchunks)
    /\ upc' = "chunked"
    /\ UNCHANGED <<l, nchunks, interleaved>>
    /\ UNCHANGED genVars
    /\ UNCHANGED predVars
    /\ UNCHANGED compVars
    /\ UNCHANGED mainVars

DoInterleave ==
    /\ upc \in {"chunked", "given"}
    /\ interleaved' = interleave(chunks)
    /\ upc' = IF upc = "chunked" THEN "interleaved" ELSE "merged"
    /\ UNCHANGED <<l, nchunks, chunks>>
    /\ UNCHANGED genVars
    /\ UNCHANGED predVars
    /\ UNCHANGED compVars
    /\ UNCHANGED mainVars

\* ------------------------------------------------------------------- predict
Ranks == 0..(WORLD_SIZE - 1)

\* TikzDocument(code, timeout): the code string it wraps and its compile timeout
TikzDocument(code, t) == [code |-> code, timeout |-> t]

\* The lists generate can return for an item: the engine's candidates for it,
\* one or two of them, in ascending score order.
GenResults(item) ==
    {<<TikzDocument(<<item, 1>>, "engine")>>,
     <<TikzDocument(<<item, 1>>, "engine"), TikzDocument(<<item, 2>>, "engine")>>}

\* [[TikzDocument(code, timeout=None) for code in sample] for sample in load_json(f)]
LoadJson(data) ==
    [i \in 1..Len(data) |-> [k \in 1..Len(data[i]) |-> TikzDocument(data[i][k], "None")]]

\* if cache_file and isfile(cache_file): predictions = ...; else the initial list()
ReadCache == IF cache_file /\ disk.exists THEN LoadJson(disk.data) ELSE <<>>

\* a plausible slip: only the final artifact of an entry is dumped
DumpCache_final_only(preds) ==
    [i \in 1..Len(preds) |->
        IF preds[i] = <<>> THEN <<>> ELSE <<preds[i][Len(preds[i])].code>>]

\* [[p.code for p in ps] for ps in predictions]
DumpCache(preds) ==
    [i \in 1..Len(preds) |-> [k \in 1..Len(preds[i]) |-> preds[i][k].code]]

\* a plausible slip: the cached prefix is not skipped
Remaining_all(lst, c) == lst

\* list(testset)[len(predictions):]
Remaining(lst, c) == SubSeq(lst, c + 1, Len(lst))

\* a plausible wrong gather: slots filled in the order the ranks arrived
GatheredList_arrival == [i \in 1..WORLD_SIZE |-> worker_preds[arrivals[i]]]

\* gathered after all_gather_object: slot r holds rank r's worker_preds
GatheredList == [i \in 1..WORLD_SIZE |-> worker_preds[i - 1]]

\* a plausible slip: every rank writes the cache
WritesCache_any_rank(r) == cache_file

\* if cache_file and RANK == 0
WritesCache(r) == cache_file /\ r = 0

\* a plausible slip: only the new entries are dumped
CacheContent_new_only(r) == DumpCache(SubSeq(predictions[r], Len(ReadCache) + 1, Len(predictions[r])))

\* what rank r dumps to the cache file
CacheContent(r) == DumpCache(predictions[r])

\* a plausible slip: the exception is swallowed after the cleanup
Propagates_never(r) == FALSE

\* the finally block re-raises the exception in flight on leaving
Propagates(r) == raised[r]

IdlePredict ==
    /\ WORLD_SIZE = 1
    /\ testset = <<>>
    /\ cache_file = FALSE
    /\ disk = [exists |-> FALSE, data |-> <<>>]
    /\ pc = [r \in {0} |-> "off"]
    /\ predictions = [r \in {0} |-> <<>>]
    /\ worker_chunk = [r \in {0} |-> <<>>]
    /\ worker_preds = [r \in {0} |-> <<>>]
    /\ raised = [r \in {0} |-> FALSE]
    /\ arrivals = <<>>
    /\ disk0 = [exists |-> FALSE, data |-> <<>>]
    /\ invoked = {}
    /\ produced = <<>>
    /\ writes = <<>>

\* A job starts: every rank enters predict with empty locals.  The cache file
\* is absent, or holds the entries of a prefix of the dataset left by an
\* earlier job.
StartPredict ==
    /\ WORLD_SIZE \in 1..MaxRanks
    /\ \E len \in 0..MaxItems : testset = [i \in 1..len |-> i]
    /\ cache_file \in BOOLEAN
    /\ \/ disk = [exists |-> FALSE, data |-> <<>>]
       \/ /\ cache_file
          /\ \E c \in 0..Len(testset) :
                disk = [exists |-> TRUE,
                        data |-> [i \in 1..c |-> <<(<<testset[i], 1>>)>>]]
    /\ pc = [r \in Ranks |-> "start"]
    /\ predictions = [r \in Ranks |-> <<>>]
    /\ worker_chunk = [r \in Ranks |-> <<>>]
    /\ worker_preds = [r \in Ranks |-> <<>>]
    /\ raised = [r \in Ranks |-> FALSE]
    /\ arrivals = <<>>
    /\ disk0 = disk
    /\ invoked = {}
    /\ produced = [i \in 1..Len(testset) |-> <<>>]
    /\ writes = <<>>

\* Lines 138-143: read the cache, then take this rank's stripe of the rest.
Resume(r) ==
    /\ pc[r] = "start"
    /\ predictions' = [predictions EXCEPT ![r] = ReadCache]
    /\ worker_chunk' = [worker_chunk EXCEPT
            ![r] = chunk(Remaining(testset, Len(ReadCache)), WORLD_SIZE)[r + 1]]
    /\ pc' = [pc EXCEPT ![r] = "generating"]
    /\ UNCHANGED <<WORLD_SIZE, testset, cache_file, disk, worker_preds, raised, arrivals,
                   disk0, invoked, produced, writes>>
    /\ UNCHANGED utilVars
    /\ UNCHANGED genVars
    /\ UNCHANGED compVars
    /\ UNCHANGED mainVars

\* the item the for loop of line 145 hands to generate next
NextItem(r) == worker_chunk[r][Len(worker_preds[r]) + 1]

InLoop(r) ==
    /\ pc[r] = "generating"
    /\ ~raised[r]
    /\ Len(worker_preds[r]) < Len(worker_chunk[r])

\* Lines 145-147, one iteration: generate returns and its list is appended.
Generate(r) ==
    /\ InLoop(r)
    /\ \E tikz \in GenResults(NextItem(r)) :
        /\ worker_preds' = [worker_preds EXCEPT ![r] = Append(@, tikz)]
        /\ produced' = [produced EXCEPT ![NextItem(r)] = <<tikz>>]
    /\ invoked' = invoked \cup {<<r, NextItem(r)>>}
    /\ UNCHANGED <<WORLD_SIZE, testset, cache_file, disk, pc, predictions, worker_chunk,
                   raised, arrivals, disk0, writes>>
    /\ UNCHANGED utilVars
    /\ UNCHANGED genVars
    /\ UNCHANGED compVars
    /\ UNCHANGED mainVars

\* a plausible slip: no finally, the exception leaves predict at once
GenerateRaises_no_finally(r) ==
    /\ InLoop(r)
    /\ raised' = [raised EXCEPT ![r] = TRUE]
    /\ pc' = [pc EXCEPT ![r] = "raised"]
    /\ invoked' = invoked \cup {<<r, NextItem(r)>>}
    /\ UNCHANGED <<WORLD_SIZE, testset, cache_file, disk, predictions, worker_chunk,
                   worker_preds, arrivals, disk0, produced, writes>>
    /\ UNCHANGED utilVars
    /\ UNCHANGED genVars
    /\ UNCHANGED compVars
    /\ UNCHANGED mainVars

\* Line 146 raises: the loop is left and control passes to the finally block.
GenerateRaises(r) ==
    /\ InLoop(r)
    /\ raised' = [raised EXCEPT ![r] = TRUE]
    /\ invoked' = invoked \cup {<<r, NextItem(r)>>}
    /\ UNCHANGED <<WORLD_SIZE, testset, cache_file, disk, pc, predictions, worker_chunk,
                   worker_preds, arrivals, disk0, produced, writes>>
    /\ UNCHANGED utilVars
    /\ UNCHANGED genVars
    /\ UNCHANGED compVars
    /\ UNCHANGED mainVars

\* Line 150, the call: the rank hands worker_preds to the all-gather and blocks.
EnterGather(r) ==
    /\ pc[r] = "generating"
    /\ raised[r] \/ Len(worker_preds[r]) = Len(worker_chunk[r])
    /\ arrivals' = Append(arrivals, r)
    /\ pc' = [pc EXCEPT ![r] = "gathering"]
    /\ UNCHANGED <<WORLD_SIZE, testset, cache_file, disk, predictions, worker_chunk,
                   worker_preds, raised, disk0, invoked, produced, writes>>
    /\ UNCHANGED utilVars
    /\ UNCHANGED genVars
    /\ UNCHANGED compVars
    /\ UNCHANGED mainVars

\* a plausible slip: the gather does not wait for the other ranks
Gather_no_barrier(r) ==
    /\ pc[r] = "gathering"
    /\ predictions' = [predictions EXCEPT ![r] = @ \o interleave(GatheredList)]
    /\ pc' = [pc EXCEPT ![r] = "gathered"]
    /\ UNCHANGED <<WORLD_SIZE, testset, cache_file, disk, worker_chunk, worker_preds,
                   raised, arrivals, disk0, invoked, produced, writes>>
    /\ UNCHANGED utilVars
    /\ UNCHANGED genVars
    /\ UNCHANGED compVars
    /\ UNCHANGED mainVars

\* Lines 150-151: the all-gather returns once every rank has called it, and
\* predictions is extended by the interleaved lists.
Gather(r) ==
    /\ pc[r] = "gathering"
    /\ Len(arrivals) = WORLD_SIZE
    /\ predictions' = [predictions EXCEPT ![r] = @ \o interleave(GatheredList)]
    /\ pc' = [pc EXCEPT ![r] = "gathered"]
    /\ UNCHANGED <<WORLD_SIZE, testset, cache_file, disk, worker_chunk, worker_preds,
                   raised, arrivals, disk0, invoked, produced, writes>>
    /\ UNCHANGED utilVars
    /\ UNCHANGED genVars
    /\ UNCHANGED compVars
    /\ UNCHANGED mainVars

\* Lines 152-154: the cache file is rewritten.
Persist(r) ==
    /\ pc[r] = "gathered"
    /\ WritesCache(r)
    /\ disk' = [exists |-> TRUE, data |-> CacheContent(r)]
    /\ writes' = Append(writes, [rank |-> r, gather_done |-> Len(arrivals) = WORLD_SIZE])
    /\ pc' = [pc EXCEPT ![r] = "persisted"]
    /\ UNCHANGED <<WORLD_SIZE, testset, cache_file, predictions, worker_chunk, worker_preds,
                   raised, arrivals, disk0, invoked, produced>>
    /\ UNCHANGED utilVars
    /\ UNCHANGED genVars
    /\ UNCHANGED compVars
    /\ UNCHANGED mainVars

\* the finally block has run to its end
CleanupDone(r) == pc[r] = "persisted" \/ (pc[r] = "gathered" /\ ~WritesCache(r))

\* Line 155: return predictions.
Return(r) ==
    /\ CleanupDone(r)
    /\ ~Propagates(r)
    /\ pc' = [pc EXCEPT ![r] = "returned"]
    /\ UNCHANGED <<WORLD_SIZE, testset, cache_file, disk, predictions, worker_chunk,
                   worker_preds, raised, arrivals, disk0, invoked, produced, writes>>
    /\ UNCHANGED utilVars
    /\ UNCHANGED genVars
    /\ UNCHANGED compVars
    /\ UNCHANGED mainVars

\* End of the finally block with an exception in flight: it leaves predict.
Reraise(r) ==
    /\ CleanupDone(r)
    /\ Propagates(r)
    /\ pc' = [pc EXCEPT ![r] = "raised"]
    /\ UNCHANGED <<WORLD_SIZE, testset, cache_file, disk, predictions, worker_chunk,
                   worker_preds, raised, arrivals, disk0, invoked, produced, writes>>
    /\ UNCHANGED utilVars
    /\ UNCHANGED genVars
    /\ UNCHANGED compVars
    /\ UNCHANGED mainVars

\* The job is over on every rank and the script is run again with the same
\* cache path and dataset.
Restart ==
    /\ \A r \in Ranks : pc[r] \in {"returned", "raised"}
    /\ pc' = [r \in Ranks |-> "start"]
    /\ predictions' = [r \in Ranks |-> <<>>]
    /\ worker_chunk' = [r \in Ranks |-> <<>>]
    /\ worker_preds' = [r \in Ranks |-> <<>>]
    /\ raised' = [r \in Ranks |-> FALSE]
    /\ arrivals' = <<>>
    /\ disk0' = disk
    /\ invoked' = {}
    /\ produced' = [i \in 1..Len(testset) |-> <<>>]
    /\ writes' = <<>>
    /\ UNCHANGED <<WORLD_SIZE, testset, cache_file, disk>>
    /\ UNCHANGED utilVars
    /\ UNCHANGED genVars
    /\ UNCHANGED compVars
    /\ UNCHANGED mainVars

\* ------------------------------------------------------------------- compute
\* metrics.items() in insertion order
Metrics == <<"bleu", "eed", "emdsim", "cossim", "dreamsim", "kid">>

MetricSet == {Metrics[i] : i \in 1..Len(Metrics)}

\* What compute reads of one (reference, prediction) pair: whether the final
\* artifact pred[-1] is rasterizable, and the similarity a metric finds.
PairKinds ==
    {[is_rasterizable |-> TRUE, sim |-> 1], [is_rasterizable |-> TRUE, sim |-> 2],
     [is_rasterizable |-> FALSE, sim |-> 0]}

\* add_state("score", 0.0), add_state("n_samples", 0): the defaults reset() restores
Fresh == [score |-> 0, n_samples |-> 0]

RECURSIVE SumSim(_)
SumSim(b) == IF b = <<>> THEN 0 ELSE Head(b).sim + SumSim(Tail(b))

\* kid is fed every pair twice, as real and as fake image
UpdatesPerPair(m) == IF m = "kid" THEN 2 ELSE 1

\* update: for every pair, self.score += similarity; self.n_samples += 1
MetricUpdate(m, a, b) ==
    [score |-> a.score + UpdatesPerPair(m) * SumSim(b),
     n_samples |-> a.n_samples + UpdatesPerPair(m) * Len(b)]

\* compute: self.score / self.n_samples, kept as the pair of the two
MetricCompute(a) == <<a.score, a.n_samples>>

\* a plausible slip: the metric is not reset after compute
MetricReset_missing(a) == a

\* metric.reset()
MetricReset(a) == Fresh

\* a plausible slip: the assertion is not made
AssertionHolds_skipped(b) == TRUE

\* assert all(pred[-1].is_rasterizable for pred in predictions)
AssertionHolds(b) == \A i \in 1..Len(b) : b[i].is_rasterizable

IdleCompute ==
    /\ cpc = "off"
    /\ batch = <<>>
    /\ mstate = [m \in MetricSet |-> Fresh]
    /\ mstate0 = [m \in MetricSet |-> Fresh]
    /\ scores = <<>>
    /\ mi = 0
    /\ ncalls = 0

\* load_metrics has built the six metric objects
StartCompute ==
    /\ cpc = "idle"
    /\ batch = <<>>
    /\ mstate = [m \in MetricSet |-> Fresh]
    /\ mstate0 = [m \in MetricSet |-> Fresh]
    /\ scores = <<>>
    /\ mi = 0
    /\ ncalls = 0

\* Lines 174-176: compute is called and reads code and image of every final
\* artifact.  rasterize() of an artifact that is not rasterizable either gives
\* no image or raises.
ComputeCall ==
    /\ cpc \in {"idle", "returned"}
    /\ ncalls < MaxCalls
    /\ \E b \in SeqsUpTo(PairKinds, MaxBatch) :
        /\ batch' = b
        /\ cpc' \in (IF \A i \in 1..Len(b) : b[i].is_rasterizable
                     THEN {"extracted"} ELSE {"extracted", "failed"})
    /\ mstate0' = mstate
    /\ scores' = <<>>
    /\ mi' = 0
    /\ ncalls' = ncalls + 1
    /\ UNCHANGED mstate
    /\ UNCHANGED utilVars
    /\ UNCHANGED genVars
    /\ UNCHANGED predVars
    /\ UNCHANGED mainVars

\* Lines 177-191: the assertion, then the structural statistic and the table
\* of update closures.
ComputeAssert ==
    /\ cpc = "extracted"
    /\ IF AssertionHolds(batch)
       THEN /\ cpc' = "looping"
            /\ scores' = [k \in {"MeanTokenEfficiency"} |-> <<0, Len(batch)>>]
       ELSE /\ cpc' = "failed"
            /\ UNCHANGED scores
    /\ UNCHANGED <<batch, mstate, mstate0, mi, ncalls>>
    /\ UNCHANGED utilVars
    /\ UNCHANGED genVars
    /\ UNCHANGED predVars
    /\ UNCHANGED mainVars

\* Lines 193-196, one iteration: update(), scores[str(metric)] = compute(), reset()
MetricStep ==
    /\ cpc = "looping"
    /\ mi < Len(Metrics)
    /\ LET m == Metrics[mi + 1]
           updated == MetricUpdate(m, mstate[m], batch)
       IN  /\ scores' = [k \in DOMAIN scores \cup {m} |->
                            IF k = m THEN MetricCompute(updated) ELSE scores[k]]
           /\ mstate' = [mstate EXCEPT ![m] = MetricReset(updated)]
    /\ mi' = mi + 1
    /\ UNCHANGED <<cpc, batch, mstate0, ncalls>>
    /\ UNCHANGED utilVars
    /\ UNCHANGED genVars
    /\ UNCHANGED predVars
    /\ UNCHANGED mainVars

\* Line 197: return scores
ComputeReturn ==
    /\ cpc = "looping"
    /\ mi = Len(Metrics)
    /\ cpc' = "returned"
    /\ UNCHANGED <<batch, mstate, mstate0, scores, mi, ncalls>>
    /\ UNCHANGED utilVars
    /\ UNCHANGED genVars
    /\ UNCHANGED predVars
    /\ UNCHANGED mainVars

\* ------------------------------------------------------------------ __main__
\* The parts of a --path token, each as the pieces part.split('=') gives.
Parts ==
    {<<"MODEL", "a">>, <<"MODEL", "b">>, <<"PATH", "m">>, <<"PATH", "p.json">>,
     <<"LORA_WEIGHTS", "w">>, <<"a">>, <<"PATH", "m", "x">>}

\* item.split(','): at least one part
Tokens == SeqsUpTo(Parts, MaxParts) \ {<<>>}

\* '=' in part
HasEquals(part) == Len(part) >= 2

\* dict(...) raises ValueError on an element that is not a pair
DictRaises(tok) == \E i \in 1..Len(tok) : Len(tok[i]) > 2

\* dict(part.split('=') for part in item.split(',') if '=' in part):
\* the last pair of a key wins
ModelParts(tok) ==
    LET pairs == {i \in 1..Len(tok) : HasEquals(tok[i])}
        last(k) == CHOOSE i \in pairs :
                       /\ tok[i][1] = k
                       /\ \A j \in pairs : tok[j][1] = k => j <= i
    IN  [k \in {tok[i][1] : i \in pairs} |-> tok[last(k)][2]]

\* d.get(k): <<>> for None, <<v>> for the value v
Get(d, k) == IF k \in DOMAIN d THEN <<d[k]>> ELSE <<>>

\* path.endswith("json")
EndsWithJson(p) == p = "p.json"

\* a plausible slip: the mode follows the presence of the timeout
MetricType_if_given(t) == IF t # <<>> THEN "model" ELSE "fast"

\* metric_type = "model" if timeout else "fast"
MetricType(t) == IF Truthy(t) THEN "model" ELSE "fast"

\* predictions[model_name] = v
Assign(d, k, v) == [x \in DOMAIN d \cup {k} |-> IF x = k THEN v ELSE d[x]]

IdleMain ==
    /\ args = [timeout |-> <<>>, cache_dir |-> FALSE]
    /\ RANK = 0
    /\ mpc = "off"
    /\ path_item = <<>>
    /\ model_parts = <<>>
    /\ npaths = 0
    /\ model_predictions = <<>>
    /\ preds0 = <<>>
    /\ metric_types = <<>>
    /\ output = <<>>

\* Lines 202-209: the arguments are parsed, predictions is an empty dict
StartMain ==
    /\ args \in [timeout : Timeouts, cache_dir : BOOLEAN]
    /\ RANK \in 0..(MaxRanks - 1)
    /\ mpc = "next"
    /\ path_item = <<>>
    /\ model_parts = <<>>
    /\ npaths = 0
    /\ model_predictions = <<>>
    /\ preds0 = <<>>
    /\ metric_types = <<>>
    /\ output = <<>>

\* Lines 211-213: the loop takes the next token and builds model_parts
ParseItem ==
    /\ mpc = "next"
    /\ npaths < MaxPaths
    /\ \E tok \in Tokens :
        /\ path_item' = tok
        /\ IF DictRaises(tok)
           THEN mpc' = "aborted" /\ UNCHANGED model_parts
           ELSE mpc' = "parsed" /\ model_parts' = ModelParts(tok)
    /\ npaths' = npaths + 1
    /\ preds0' = model_predictions
    /\ UNCHANGED <<args, RANK, model_predictions, metric_types, output>>
    /\ UNCHANGED utilVars
    /\ UNCHANGED genVars
    /\ UNCHANGED predVars
    /\ UNCHANGED compVars

\* Lines 214-218 with path None: None has no endswith, AttributeError
NoPath ==
    /\ mpc = "parsed"
    /\ Get(model_parts, "PATH") = <<>>
    /\ mpc' = "aborted"
    /\ UNCHANGED <<args, RANK, path_item, model_parts, npaths, model_predictions, preds0,
                   metric_types, output>>
    /\ UNCHANGED utilVars
    /\ UNCHANGED genVars
    /\ UNCHANGED predVars
    /\ UNCHANGED compVars

\* Lines 214-220: the path names a json file, which is loaded under model_name
\* (None when the token had no MODEL= pair); open() raises when it is missing
LoadFile ==
    /\ mpc = "parsed"
    /\ Get(model_parts, "PATH") # <<>>
    /\ EndsWithJson(Get(model_parts, "PATH")[1])
    /\ \E isfile \in BOOLEAN :
        IF isfile
        THEN /\ model_predictions' =
                    Assign(model_predictions, Get(model_parts, "MODEL"), "json")
             /\ mpc' = "next"
        ELSE /\ mpc' = "aborted"
             /\ UNCHANGED model_predictions
    /\ UNCHANGED <<args, RANK, path_item, model_parts, npaths, preds0, metric_types, output>>
    /\ UNCHANGED utilVars
    /\ UNCHANGED genVars
    /\ UNCHANGED predVars
    /\ UNCHANGED compVars

\* Lines 221-242: predict is called.  It builds the pipeline with its
\* metric_type (lines 136-137); with model_name None, model_name.title() at
\* line 145 raises AttributeError; otherwise it returns or raises.
CallPredict ==
    /\ mpc = "parsed"
    /\ Get(model_parts, "PATH") # <<>>
    /\ ~EndsWithJson(Get(model_parts, "PATH")[1])
    /\ metric_types' = Append(metric_types, MetricType(args.timeout))
    /\ \E returns \in BOOLEAN :
        IF returns /\ Get(model_parts, "MODEL") # <<>>
        THEN /\ model_predictions' =
                    Assign(model_predictions, Get(model_parts, "MODEL"), "predict")
             /\ mpc' = "next"
        ELSE /\ mpc' = "aborted"
             /\ UNCHANGED model_predictions
    /\ UNCHANGED <<args, RANK, path_item, model_parts, npaths, preds0, output>>
    /\ UNCHANGED utilVars
    /\ UNCHANGED genVars
    /\ UNCHANGED predVars
    /\ UNCHANGED compVars

\* Line 244: the loop over args.path (nargs='+') is over
EndLoop ==
    /\ mpc = "next"
    /\ npaths >= 1
    /\ mpc' = IF RANK = 0 THEN "scoring" ELSE "done"
    /\ UNCHANGED <<args, RANK, path_item, model_parts, npaths, model_predictions, preds0,
                   metric_types, output>>
    /\ UNCHANGED utilVars
    /\ UNCHANGED genVars
    /\ UNCHANGED predVars
    /\ UNCHANGED compVars

\* Lines 245-250: every entry of predictions is scored and the scores are
\* dumped; a failing compute ends the process before the file is opened
Score ==
    /\ mpc = "scoring"
    /\ \E computed \in BOOLEAN :
        IF computed
        THEN /\ output' = <<[models |-> DOMAIN model_predictions,
                             measure_throughput |-> args.timeout # <<>>]>>
             /\ mpc' = "done"
        ELSE /\ mpc' = "aborted"
             /\ UNCHANGED output
    /\ UNCHANGED <<args, RANK, path_item, model_parts, npaths, model_predictions, preds0,
                   metric_types>>
    /\ UNCHANGED utilVars
    /\ UNCHANGED genVars
    /\ UNCHANGED predVars
    /\ UNCHANGED compVars

\* ------------------------------------------------------------ specifications
RankStep(r) ==
    \/ Resume(r)
    \/ Generate(r)
    \/ GenerateRaises(r)
    \/ EnterGather(r)
    \/ Gather(r)
    \/ Persist(r)
    \/ Return(r)
    \/ Reraise(r)

Next ==
    \/ \E r \in Ranks : Resume(r)
    \/ \E r \in Ranks : Generate(r)
    \/ \E r \in Ranks : GenerateRaises(r)
    \/ \E r \in Ranks : EnterGather(r)
    \/ \E r \in Ranks : Gather(r)
    \/ \E r \in Ranks : Persist(r)
    \/ \E r \in Ranks : Return(r)
    \/ \E r \in Ranks : Reraise(r)
    \/ Restart

Init == StartPredict /\ IdleUtil /\ IdleGen /\ IdleCompute /\ IdleMain

Spec == Init /\ [][Next]_vars

\* Every rank is a process of its own and keeps running; a call of generate
\* ends, by returning or by raising.
FairSpec == Spec /\ \A r \in 0..(MaxRanks - 1) : WF_vars(r \in Ranks /\ RankStep(r))

NextCompute == ComputeCall \/ ComputeAssert \/ MetricStep \/ ComputeReturn

InitCompute == StartCompute /\ IdleUtil /\ IdleGen /\ IdlePredict /\ IdleMain

SpecCompute == InitCompute /\ [][NextCompute]_vars

NextUtil == DoChunk \/ DoInterleave

InitUtil == StartUtil /\ IdleGen /\ IdlePredict /\ IdleCompute /\ IdleMain

SpecUtil == InitUtil /\ [][NextUtil]_vars

NextGenerate == GenYield \/ GenExhaust \/ GenReturn

InitGenerate == StartGen /\ IdleUtil /\ IdlePredict /\ IdleCompute /\ IdleMain

SpecGenerate == InitGenerate /\ [][NextGenerate]_vars

NextMain == ParseItem \/ NoPath \/ LoadFile \/ CallPredict \/ EndLoop \/ Score

InitMain == StartMain /\ IdleUtil /\ IdleGen /\ IdlePredict /\ IdleCompute

SpecMain == InitMain /\ [][NextMain]_vars

\* ==================================================================== claims
IsPrefix(a, b) == Len(a) <= Len(b) /\ SubSeq(b, 1, Len(a)) = a

\* number of entries the cache held when the job started
Cached0 == IF cache_file /\ disk0.exists THEN Len(disk0.data) ELSE 0

NoRankRaised == \A r \in Ranks : ~raised[r]

CodesOf(entry) == [k \in 1..Len(entry) |-> entry[k].code]

\* C1: in a job in which no rank raises, the list predict returns on a rank has
\* one entry per dataset item, in dataset order: the cached entries first, then
\* for every other item the list generate returned for that item.
C1_ReturnsAlignedBatch ==
    \A r \in Ranks :
        (pc[r] = "returned" /\ NoRankRaised) =>
            /\ Len(predictions[r]) = Len(testset)
            /\ \A i \in 1..Len(testset) :
                IF i <= Cached0
                THEN CodesOf(predictions[r][i]) = disk0.data[i]
                ELSE /\ produced[testset[i]] # <<>>
                     /\ predictions[r][i] = produced[testset[i]][1]

\* 3 items over 2 ranks (an uneven split), no cache, one candidate per item;
\* rank 1 reached the all-gather first and every rank has returned
C1_Witness ==
    /\ WORLD_SIZE = 2
    /\ Len(testset) = 3
    /\ Cached0 = 0
    /\ \A r \in Ranks : pc[r] = "returned"
    /\ \A i \in 1..3 : Len(predictions[0][i]) = 1
    /\ arrivals = <<1, 0>>

PastGather == {"gathered", "persisted", "returned", "raised"}

HasArrived(r) == \E i \in 1..Len(arrivals) : arrivals[i] = r

BarrierCompleted == \A r \in Ranks : HasArrived(r) /\ pc[r] \in PastGather

\* C2: once generate has raised on some rank, every rank enters the all-gather
\* of that call and the all-gather returns on every rank.
C2_RaiseLeadsToBarrier == (\E r \in Ranks : raised[r]) ~> BarrierCompleted

\* rank 1 raised, rank 0 did not, and the all-gather has returned on both
C2_Witness ==
    /\ WORLD_SIZE = 2
    /\ raised[1] /\ ~raised[0]
    /\ BarrierCompleted

\* C3: the work lists of the ranks partition the uncached items: the item at
\* position p of the remaining items is at local index p div WORLD_SIZE of rank
\* p mod WORLD_SIZE, and the work lists hold nothing else.
C3_StripedPartition ==
    LET rest == Len(testset) - Cached0
        resumed == {r \in Ranks : pc[r] # "start"}
    IN  /\ \A p \in 0..(rest - 1) :
            (p % WORLD_SIZE) \in resumed =>
                /\ Len(worker_chunk[p % WORLD_SIZE]) >= p \div WORLD_SIZE + 1
                /\ worker_chunk[p % WORLD_SIZE][p \div WORLD_SIZE + 1] = testset[Cached0 + p + 1]
        /\ \A r \in resumed :
            Len(worker_chunk[r]) = Cardinality({p \in 0..(rest - 1) : p % WORLD_SIZE = r})

\* 2 ranks share the 2 uncached items behind a cached one
C3_Witness ==
    /\ WORLD_SIZE = 2
    /\ Len(testset) = 3
    /\ Cached0 = 1
    /\ \A r \in Ranks : pc[r] = "generating"
    /\ worker_chunk[0] = <<2>>
    /\ worker_chunk[1] = <<3>>

\* C4: generate is invoked only on items behind the cached prefix, so on no
\* item at all when the cache holds an entry for every item.
C4_CachedItemsNotGenerated ==
    \A call \in invoked :
        \E i \in (Cached0 + 1)..Len(testset) : testset[i] = call[2]

\* a job that ran on the complete cache a job of the model wrote (it holds a
\* two-candidate entry) and invoked generate on nothing
C4_Witness ==
    /\ Len(testset) >= 2
    /\ Cached0 = Len(testset)
    /\ \E i \in 1..Cached0 : Len(disk0.data[i]) = 2
    /\ \A r \in Ranks : pc[r] = "returned"
    /\ invoked = {}

\* C5: every step leaves the cache file in place with its former content as a
\* prefix of the new content.
C5_CacheOnlyGrows ==
    [][disk.exists => (disk'.exists /\ IsPrefix(disk.data, disk'.data))]_vars

\* rank 0 raised and still wrote a cache that extends the one it read
C5_Witness ==
    /\ Cached0 >= 1
    /\ pc[0] = "raised"
    /\ Len(writes) = 1
    /\ Len(disk.data) > Len(disk0.data)
    /\ IsPrefix(disk0.data, disk.data)

\* the success criterion as the claim states it
Rasterizable(doc) == doc.is_rasterizable
CompiledCleanly(doc) == ~doc.compiled_with_errors
MeetsCriterion(doc) == IF strict THEN CompiledCleanly(doc) ELSE Rasterizable(doc)

SuccessBy(k) == \E j \in 1..k : MeetsCriterion(seen[j].pair[2])

\* after the k-th yield: success observed and (no timeout or elapsed >= timeout)
StopPoint(k) ==
    /\ SuccessBy(k)
    /\ timeout = <<>> \/ seen[k].at - start >= timeout[1]

\* C6: generate breaks exactly at the first yield that is a stop point: it has
\* consumed nothing after a stop point, it keeps looping after a yield that is
\* none, and with timeout=0 and the first success at the 3rd yield it returns
\* the first 3 artifacts.
C6_StopsAtFirstStopPoint ==
    /\ \A k \in 1..(Len(seen) - 1) : ~StopPoint(k)
    /\ (gpc = "loop" /\ seen # <<>>) => ~StopPoint(Len(seen))
    /\ gpc = "broke" => StopPoint(Len(seen))
    /\ (gpc = "returned" /\ timeout = <<0>> /\ Len(seen) >= 3
            /\ SuccessBy(3) /\ ~SuccessBy(2)) =>
          /\ Len(seen) = 3
          /\ {result[i] : i \in 1..Len(result)} = {seen[k].pair[2] : k \in 1..3}
          /\ Len(result) = Cardinality({seen[k].pair : k \in 1..3})

\* timeout=0, three distinct pairs, the third the first success, all returned
C6_Witness ==
    /\ gpc = "returned"
    /\ timeout = <<0>>
    /\ Len(seen) = 3
    /\ SuccessBy(3) /\ ~SuccessBy(2)
    /\ Len(result) = 3

\* C7: when a success occurred, the last artifact of the list generate returns
\* meets the success criterion.
C7_LastMeetsCriterion ==
    (gpc = "returned" /\ SuccessBy(Len(seen))) =>
        /\ result # <<>>
        /\ MeetsCriterion(result[Len(result)])

CallsOf(r) == {call \in invoked : call[1] = r}

\* C8: a rank on which generate raised has invoked generate on nothing after
\* the raising call, leaves predict only after the all-gather (and, on rank 0
\* with a cache path, after the cache write), and leaves it by the exception.
C8_RaiseAfterCleanup ==
    \A r \in Ranks :
        raised[r] =>
            /\ Cardinality(CallsOf(r)) = Len(worker_preds[r]) + 1
            /\ pc[r] # "returned"
            /\ pc[r] = "raised" =>
                /\ \A q \in Ranks : HasArrived(q)
                /\ (r = 0 /\ cache_file) => (Len(writes) = 1 /\ writes[1].rank = 0)

\* rank 0 raised on its second item, wrote the cache and left by the exception
C8_Witness ==
    /\ WORLD_SIZE = 2
    /\ cache_file
    /\ pc[0] = "raised"
    /\ Len(worker_preds[0]) = 1
    /\ Len(worker_chunk[0]) = 2
    /\ Len(writes) = 1

\* C9: the cache file changes only by a write of rank 0, made with a cache path
\* configured and after the all-gather has completed, at most once per call.
C9_OnlyRankZeroWrites ==
    /\ Len(writes) <= 1
    /\ \A i \in 1..Len(writes) :
        writes[i].rank = 0 /\ writes[i].gather_done /\ cache_file
    /\ writes = <<>> => disk = disk0

\* 2 ranks, both done, one write
C9_Witness ==
    /\ WORLD_SIZE = 2
    /\ \A r \in Ranks : pc[r] \in {"returned", "raised"}
    /\ Len(writes) = 1
    /\ disk # disk0

Observed == {seen[k].pair : k \in 1..Len(seen)}

\* C11: the list generate returns lists the distinct observed pairs, each once
\* and no other, by their artifacts, in an order of non-decreasing score.
C11_DistinctPairsByScore ==
    gpc = "returned" =>
        /\ Len(result) = Cardinality(Observed)
        /\ \E q \in [1..Len(result) -> Observed] :
            /\ {q[i] : i \in 1..Len(result)} = Observed
            /\ \A i \in 1..Len(result) : result[i] = q[i][2]
            /\ \A i \in 1..(Len(result) - 1) : q[i][1] <= q[i + 1][1]

\* three yields, the second repeating the first pair, the third scoring lower:
\* two artifacts come back, the lower-scored first
C11_Witness ==
    /\ gpc = "returned"
    /\ Len(seen) = 3
    /\ seen[1].pair = seen[2].pair
    /\ seen[1].pair[1] = 2
    /\ seen[3].pair[1] = 1
    /\ result = <<seen[3].pair[2], seen[1].pair[2]>>
    /\ seen[3].pair[2] # seen[1].pair[2]


\* Some final artifact of the current batch is not rasterizable.
SomeFinalNotRasterizable == \E i \in 1..Len(batch) : ~batch[i].is_rasterizable

\* C12: a compute call whose predictions contain a final artifact that is not
\* rasterizable never gets past the assertion: it builds no score mapping and
\* every metric accumulator stays as it was when the call started.
C12_FailsBeforeAnyUpdate ==
    (ncalls > 0 /\ SomeFinalNotRasterizable) =>
        /\ cpc \in {"extracted", "failed"}
        /\ scores = <<>>
        /\ mstate = mstate0

\* a second call on the same metric objects has failed on such a batch
C12_Witness ==
    /\ cpc = "failed"
    /\ ncalls = 2
    /\ SomeFinalNotRasterizable
    /\ mstate = mstate0

\* The scores a call on batch b gives when made on freshly built metrics.
ScoredAlone(m, b) == MetricCompute(MetricUpdate(m, Fresh, b))

\* C13: when compute has returned, each of the six accumulators is back in its
\* initial state and every metric's score is the one the same batch gives on
\* freshly built metric objects, whatever calls came before.
C13_ResetAfterCompute ==
    cpc = "returned" =>
        \A m \in MetricSet :
            /\ mstate[m] = Fresh
            /\ m \in DOMAIN scores
            /\ scores[m] = ScoredAlone(m, batch)

\* the second call on the same metric objects has returned for a non-empty batch
C13_Witness ==
    /\ cpc = "returned"
    /\ ncalls = 2
    /\ Len(batch) = MaxBatch
    /\ scores["kid"] = ScoredAlone("kid", batch)

HasPair(tok, key) == \E i \in 1..Len(tok) : Len(tok[i]) >= 2 /\ tok[i][1] = key

\* C16: a --path token that lacks a MODEL= pair or a PATH= pair ends the
\* process: once such a token is taken, the process never gets past it, the
\* predictions dict gains no entry and no scores file is written.
C16_MalformedTokenAborts ==
    (path_item # <<>> /\ (~HasPair(path_item, "MODEL") \/ ~HasPair(path_item, "PATH"))) =>
        /\ mpc \in {"parsed", "aborted"}
        /\ model_predictions = preds0
        /\ output = <<>>

\* The batch sequences a and b have the same shape and, position by position,
\* artifacts with equal code strings.
CodeIdentical(a, b) ==
    /\ Len(a) = Len(b)
    /\ \A i \in 1..Len(a) :
        /\ Len(a[i]) = Len(b[i])
        /\ \A k \in 1..Len(a[i]) : a[i][k].code = b[i][k].code

\* C15: reading back the cache rank 0 has written gives a sequence that is
\* code-identical to the one it wrote from, whatever the compile timeouts of
\* the artifacts written.
C15_CacheRoundTrip ==
    (pc[0] \in {"persisted", "returned", "raised"} /\ Len(writes) = 1) =>
        CodeIdentical(LoadJson(disk.data), predictions[0])

\* rank 0 wrote cached artifacts (no timeout) and generated ones (the engine's
\* timeout), among them an entry of two artifacts
C15_Witness ==
    /\ pc[0] = "persisted"
    /\ Len(writes) = 1
    /\ Cached0 >= 1
    /\ Len(predictions[0]) > Cached0
    /\ predictions[0][1][1].timeout = "None"
    /\ predictions[0][Len(predictions[0])][1].timeout = "engine"
    /\ \E i \in 1..Len(predictions[0]) : Len(predictions[0][i]) = 2

\* C17: whenever predict returns on a rank, whatever the other ranks did, the
\* list it returns has one entry per dataset item, in dataset order.
C17_ReturnsWholeBatch ==
    \A r \in Ranks :
        pc[r] = "returned" =>
            /\ Len(predictions[r]) = Len(testset)
            /\ \A i \in (Cached0 + 1)..Len(testset) :
                /\ produced[testset[i]] # <<>>
                /\ predictions[r][i] = produced[testset[i]][1]

\* Access (k1, w1) comes before access (k, w): an earlier round, or the same
\* round and an earlier worker.  Rounds count from 0, workers from 1.
AccessBefore(k1, w1, k, w) == k1 < k \/ (k1 = k /\ w1 < w)

\* C18: on given chunks of any lengths, interleave returns the elements in
\* order of round and, within a round, of worker, up to the first access
\* (k, w) in that order that is out of range: the elements of round k before
\* worker w are kept and nothing from that access on.
C18_StopsAtFirstShortAccess ==
    upc = "merged" =>
        \E k \in 0..MaxChunkLen, w \in 1..Len(chunks) :
            /\ k >= Len(chunks[w])
            /\ \A k1 \in 0..k, w1 \in 1..Len(chunks) :
                AccessBefore(k1, w1, k, w) => k1 < Len(chunks[w1])
            /\ Len(interleaved) = k * Len(chunks) + (w - 1)
            /\ \A p \in 0..(Len(interleaved) - 1) :
                interleaved[p + 1] = chunks[(p % Len(chunks)) + 1][(p \div Len(chunks)) + 1]

\* chunks of lengths 2, 1, 2: the second round ends after its first element
C18_Witness ==
    /\ upc = "merged"
    /\ Len(chunks) = 3
    /\ Len(chunks[1]) = 2 /\ Len(chunks[2]) = 1 /\ Len(chunks[3]) = 2
    /\ interleaved = <<chunks[1][1], chunks[2][1], chunks[3][1], chunks[1][2]>>

\* The item at dataset position i was completed in this job.
Completed(i) == produced[testset[i]] # <<>>

\* Length of the longest run of completed items that starts right behind the
\* cached prefix.
CompletedRun ==
    CHOOSE m \in 0..(Len(testset) - Cached0) :
        /\ \A i \in (Cached0 + 1)..(Cached0 + m) : Completed(i)
        /\ m < Len(testset) - Cached0 => ~Completed(Cached0 + m + 1)

\* C19: what rank 0 writes to the cache is index-aligned with the dataset: the
\* cached entries, then the candidates of the items of the longest run of
\* completed items behind them, each in the slot of its item; completed items
\* behind the first uncompleted one are left out.
C19_CacheStaysAligned ==
    Len(writes) = 1 =>
        /\ Len(disk.data) = Cached0 + CompletedRun
        /\ \A i \in 1..Cached0 : disk.data[i] = disk0.data[i]
        /\ \A i \in (Cached0 + 1)..(Cached0 + CompletedRun) :
            disk.data[i] = CodesOf(produced[testset[i]][1])

\* 3 items over 2 ranks, rank 1 raised on the second item and rank 0 completed
\* the first and the third: the cache holds the first item only
C19_Witness ==
    /\ WORLD_SIZE = 2
    /\ Len(testset) = 3
    /\ Cached0 = 0
    /\ Completed(1) /\ ~Completed(2) /\ Completed(3)
    /\ raised[1]
    /\ Len(writes) = 1
    /\ Len(disk.data) = 1
    /\ disk.data[1] = CodesOf(produced[testset[1]][1])

\* C20: in one job the cache is written only once every rank has read it and
\* has called the gather, so every rank partitions behind the same cached
\* prefix, the one the job started with.
C20_NoReadAfterWrite ==
    /\ writes # <<>> => \A r \in Ranks : pc[r] # "start" /\ HasArrived(r)
    /\ \A r \in Ranks :
        pc[r] \in {"generating", "gathering"} =>
            /\ Len(predictions[r]) = Cached0
            /\ worker_chunk[r] = chunk(Remaining(testset, Cached0), WORLD_SIZE)[r + 1]

\* rank 0 has extended a non-empty cache while rank 1, which read the same
\* cache, has not yet left the gather
C20_Witness ==
    /\ WORLD_SIZE = 2
    /\ Cached0 >= 1
    /\ Len(writes) = 1
    /\ Len(disk.data) > Cached0
    /\ pc[1] = "gathering"
    /\ Len(predictions[1]) = Cached0
====
